---- MODULE Spec2Model ----
(***************************************************************************)
(* Model of use-react-hook-form-persist: the path accessor of              *)
(* src/internal/deep-copy.ts (getIn, setIn, deleteIn) and the hook of      *)
(* src/index.ts: it restores a form from the storage when it mounts,       *)
(* filters and saves the values of the form when they change, and clears   *)
(* the storage on submit.                                                  *)
(*                                                                         *)
(* JavaScript values are records tagged by t.  A string is a sequence of   *)
(* one-character strings, so that splitting a path on "." and the          *)
(* String(+s) === s test are computed and not assumed.  A mapping is       *)
(* [t |-> "obj", p |-> own properties]; a sequence is                      *)
(* [t |-> "arr", len |-> length, p |-> own properties]: a hole is an index *)
(* below len that is not in DOMAIN p, and a sequence may carry named       *)
(* properties as any JavaScript array may.  The source files are ES        *)
(* modules, hence strict-mode code: a property write on a primitive value  *)
(* raises a TypeError.  Property names inherited from Object.prototype or  *)
(* Array.prototype ("length", "constructor", ...) are outside the segment  *)
(* alphabet of the model.                                                  *)
(***************************************************************************)
EXTENDS Integers, Sequences, FiniteSets, TLC

\* ------------------------------------------------------------------ bounds

\* longest path, in segments, that an operation is called with
MaxPathLen == 3
\* most nodes (containers and leaves below the root) a root may hold
MaxNodes == 3

\* ------------------------------------------------------- strings, numbers

Dot == "."
Digits == <<"0", "1", "2", "3", "4", "5", "6", "7", "8", "9">>
DigitChars == {Digits[i] : i \in 1..10}
DigitVal(c) == (CHOOSE i \in 1..10 : Digits[i] = c) - 1

NaN == [k |-> "nan"]
IntNum(n) == [k |-> "int", n |-> n]

RECURSIVE SplitAcc(_, _, _)
SplitAcc(p, cur, acc) ==
  IF p = <<>> THEN Append(acc, cur)
  ELSE IF Head(p) = Dot THEN SplitAcc(Tail(p), <<>>, Append(acc, cur))
  ELSE SplitAcc(Tail(p), Append(cur, Head(p)), acc)

\* p.split(".")
splitPath(p) == SplitAcc(p, <<>>, <<>>)

RECURSIVE DigitsValue(_, _)
DigitsValue(s, acc) ==
  IF s = <<>> THEN acc ELSE DigitsValue(Tail(s), acc * 10 + DigitVal(Head(s)))

AllDigits(s) == s # <<>> /\ \A i \in 1..Len(s) : s[i] \in DigitChars

\* unary plus on a string: the empty string is 0, a decimal literal with an
\* optional sign is its value, anything else is NaN
ToNumber(s) ==
  IF s = <<>> THEN IntNum(0)
  ELSE IF AllDigits(s) THEN IntNum(DigitsValue(s, 0))
  ELSE IF Head(s) = "-" /\ AllDigits(Tail(s)) THEN IntNum(0 - DigitsValue(Tail(s), 0))
  ELSE IF Head(s) = "+" /\ AllDigits(Tail(s)) THEN IntNum(DigitsValue(Tail(s), 0))
  ELSE NaN

RECURSIVE Decimal(_)
Decimal(n) ==
  IF n < 10 THEN <<Digits[n + 1]>>
  ELSE Append(Decimal(n \div 10), Digits[(n % 10) + 1])

\* String(number)
StringOf(x) ==
  IF x.k = "nan" THEN <<"N", "a", "N">>
  ELSE IF x.n < 0 THEN <<"-">> \o Decimal(0 - x.n)
  ELSE Decimal(x.n)

isIndex(s) == StringOf(ToNumber(s)) = s

\* the property key that obj[+segment] addresses
NumKey(s) == StringOf(ToNumber(s))

\* a key that is an array index: it moves the length of a sequence
IsArrayIndex(k) == LET x == ToNumber(k) IN x.k = "int" /\ x.n >= 0 /\ StringOf(x) = k

\* ------------------------------------------------------------------ values

Undef == [t |-> "undefined"]
Null == [t |-> "null"]
Num(n) == [t |-> "num", n |-> n]
Str(s) == [t |-> "str", s |-> s]
Bool(b) == [t |-> "bool", b |-> b]
NoProps == [k \in {} |-> Undef]
Obj(p) == [t |-> "obj", p |-> p]
Arr(len, p) == [t |-> "arr", len |-> len, p |-> p]

\* a bug that loses the array test: every object counts as a mapping
IsArrayNever(x) == FALSE

\* Array.isArray(x)
IsArray(x) == x.t = "arr"
\* typeof x === "object" && x !== null
IsObjectLike(x) == x.t \in {"obj", "arr"}
\* x == null
IsNullish(x) == x.t \in {"undefined", "null"}

\* a bug that takes every value for a missing one
TruthyNever(x) == FALSE

\* !!x
Truthy(x) ==
  CASE x.t = "undefined" -> FALSE
    [] x.t = "null" -> FALSE
    [] x.t = "num" -> x.n # 0
    [] x.t = "str" -> x.s # <<>>
    [] x.t = "bool" -> x.b
    [] OTHER -> TRUE

\* x[k] for a value that is not null or undefined
GetProp(x, k) ==
  CASE x.t \in {"obj", "arr"} -> IF k \in DOMAIN x.p THEN x.p[k] ELSE Undef
    [] x.t = "str" ->
         IF IsArrayIndex(k) /\ ToNumber(k).n < Len(x.s)
         THEN Str(<<x.s[ToNumber(k).n + 1]>>) ELSE Undef
    [] OTHER -> Undef

Max(a, b) == IF a > b THEN a ELSE b

\* x[k] = v for a mapping or a sequence
PutProp(x, k, v) ==
  LET q == [j \in DOMAIN x.p \cup {k} |-> IF j = k THEN v ELSE x.p[j]]
  IN IF x.t = "arr"
     THEN Arr(IF IsArrayIndex(k) THEN Max(x.len, ToNumber(k).n + 1) ELSE x.len, q)
     ELSE Obj(q)

\* a bug that removes a slot of a sequence with splice: the slots after it shift
DelPropSplice(x, k) ==
  IF x.t = "arr" /\ IsArrayIndex(k) /\ ToNumber(k).n < x.len
  THEN LET at == ToNumber(k).n
           Shift(j) == IF IsArrayIndex(j) /\ ToNumber(j).n > at
                       THEN StringOf(IntNum(ToNumber(j).n - 1)) ELSE j
           kept == DOMAIN x.p \ {k}
       IN Arr(x.len - 1,
              [j \in {Shift(i) : i \in kept} |-> x.p[CHOOSE i \in kept : Shift(i) = j]])
  ELSE [x EXCEPT !.p = [j \in DOMAIN x.p \ {k} |-> x.p[j]]]

\* delete x[k] for a mapping or a sequence: a sequence keeps its length
DelProp(x, k) == [x EXCEPT !.p = [j \in DOMAIN x.p \ {k} |-> x.p[j]]]

\* Object.keys(x).length === 0
NoKeys(x) == DOMAIN x.p = {}

\* ------------------------------------------------------------------ getIn

RECURSIVE GetWalk(_, _, _)
GetWalk(current, segments, i) ==
  IF i > Len(segments) THEN current
  ELSE IF IsNullish(current) THEN Undef
  ELSE GetWalk(GetProp(current, IF isIndex(segments[i]) THEN NumKey(segments[i])
                                                         ELSE segments[i]),
               segments, i + 1)

getIn(obj, path) == GetWalk(obj, splitPath(path), 1)

\* ------------------------------------------------------------------ setIn

\* a bug that creates a mapping whatever the next segment is
FreshMapping(next) == Obj(NoProps)

\* the container setIn creates for a missing node: [] before an index
\* segment, {} before a key segment
Fresh(next) == IF isIndex(next) THEN Arr(0, NoProps) ELSE Obj(NoProps)

\* a bug that lets an index segment step into any object
MissesArrayLax(current) == ~IsObjectLike(current)

\* the test before the throw of setIn: a non-terminal index segment whose
\* current container is not a sequence
MissesArray(current) == ~IsArray(current)

\* One iteration of the loop of setIn and the ones after it, on the value the
\* loop variable `current` refers to.  The result is that value as the call
\* leaves it, and how the call ends: "ok", "Error" (the throw of setIn) or
\* "TypeError" (a property write on a primitive in strict mode).
RECURSIVE SetWalk(_, _, _, _)
SetWalk(current, segments, i, value) ==
  LET segment == segments[i] IN
  IF i = Len(segments) THEN
    IF isIndex(segment) THEN
      IF ~IsArray(current)
      THEN \* current = []: the value lands in an array nothing refers to
           [st |-> "ok", node |-> current]
      ELSE [st |-> "ok", node |-> PutProp(current, NumKey(segment), value)]
    ELSE
      IF ~IsObjectLike(current)
      THEN [st |-> "TypeError", node |-> current]
      ELSE [st |-> "ok", node |-> PutProp(current, segment, value)]
  ELSE
    IF isIndex(segment) THEN
      IF MissesArray(current)
      THEN [st |-> "Error", node |-> current]
      ELSE LET k == NumKey(segment)
               old == GetProp(current, k)
               child == IF ~Truthy(old) THEN Fresh(segments[i + 1]) ELSE old
               r == SetWalk(child, segments, i + 1, value)
           IN [st |-> r.st, node |-> PutProp(current, k, r.node)]
    ELSE
      LET old == GetProp(current, segment) IN
      IF ~IsObjectLike(current) THEN
        IF ~Truthy(old)
        THEN [st |-> "TypeError", node |-> current]
        ELSE [st |-> SetWalk(old, segments, i + 1, value).st, node |-> current]
      ELSE LET child == IF ~Truthy(old) THEN Fresh(segments[i + 1]) ELSE old
               r == SetWalk(child, segments, i + 1, value)
           IN [st |-> r.st, node |-> PutProp(current, segment, r.node)]

\* setIn(target, path, value): target as the call leaves it, and how it ends
setIn(target, path, value) == SetWalk(target, splitPath(path), 1, value)

\* --------------------------------------------------------------- deleteIn

\* a bug that never prunes
PrunableChildNever(child) == FALSE

\* the pruning test of deleteNode: child is a mapping with no own property
PrunableChild(child) == Truthy(child) /\ IsObjectLike(child) /\ ~IsArray(child) /\ NoKeys(child)

\* a bug that reports no node as empty
ReportsEmptyNever(node) == FALSE

\* what deleteNode returns for the node as it leaves it
ReportsEmpty(node) ==
  IF IsArray(node) THEN FALSE
  ELSE IF Truthy(node) /\ IsObjectLike(node) THEN NoKeys(node)
  ELSE FALSE

\* deleteNode(node, i): the node as the call leaves it and the value returned
RECURSIVE deleteNode(_, _, _)
deleteNode(node, segments, i) ==
  IF IsNullish(node) THEN [empty |-> TRUE, node |-> node]
  ELSE
    LET segment == segments[i]
        after ==
          IF i = Len(segments) THEN
            IF isIndex(segment) /\ IsArray(node) THEN DelProp(node, NumKey(segment))
            ELSE IF IsObjectLike(node) THEN DelProp(node, segment)
            ELSE node
          ELSE
            LET next == IF isIndex(segment)
                        THEN IF IsArray(node) THEN GetProp(node, NumKey(segment)) ELSE Undef
                        ELSE IF IsObjectLike(node) THEN GetProp(node, segment) ELSE Undef
                r == deleteNode(next, segments, i + 1)
                \* the recursive call has changed the child in place
                node1 == IF next = r.node THEN node
                         ELSE PutProp(node, IF isIndex(segment) THEN NumKey(segment)
                                                                ELSE segment, r.node)
            IN IF r.empty THEN
                 IF isIndex(segment) /\ IsArray(node1) THEN
                   IF PrunableChild(GetProp(node1, NumKey(segment)))
                   THEN DelProp(node1, NumKey(segment)) ELSE node1
                 ELSE IF IsObjectLike(node1) THEN
                   IF PrunableChild(GetProp(node1, segment))
                   THEN DelProp(node1, segment) ELSE node1
                 ELSE node1
               ELSE node1
    IN [empty |-> ReportsEmpty(after), node |-> after]

\* deleteIn(obj, path): obj as the call leaves it and the value returned
deleteIn(obj, path) == deleteNode(obj, splitPath(path), 1)

\* ------------------------------------------------- the inputs of the model

\* segments of the paths the operations are called with
KeySegs == {<<"a">>, <<"b">>}
IndexSegs == {<<"0">>, <<"1">>}
Segs == KeySegs \cup IndexSegs

RECURSIVE Join(_)
Join(ss) == IF Len(ss) = 1 THEN ss[1] ELSE ss[1] \o <<Dot>> \o Join(Tail(ss))

SegSeqs == UNION {[1..n -> Segs] : n \in 1..MaxPathLen}
Paths == {Join(ss) : ss \in SegSeqs}

\* the values setIn is called with: a truthy string and a falsy number
SetValues == {Str(<<"x">>), Num(0)}
\* the leaves of the roots: these and null
Leaves == SetValues \cup {Null}

\* containers and leaves of a value, itself included
RECURSIVE Size(_)
RECURSIVE SizeOver(_, _)
SizeOver(f, ks) ==
  IF ks = {} THEN 0
  ELSE LET k == CHOOSE j \in ks : TRUE IN Size(f[k]) + SizeOver(f, ks \ {k})
Size(x) == IF IsObjectLike(x) THEN 1 + SizeOver(x.p, DOMAIN x.p) ELSE 1

\* The roots a caller may pass: every mapping of at most MaxNodes nodes whose
\* mappings are keyed by KeySegs and whose sequences are indexed by IndexSegs,
\* holes and empty containers included.
RECURSIVE ValuesOf(_)
RECURSIVE PropsOf(_, _)
PropsOf(ks, n) ==
  IF ks = {} \/ n = 0 THEN {NoProps}
  ELSE LET k == CHOOSE j \in ks : TRUE
           rest == ks \ {k}
       IN PropsOf(rest, n) \cup
          UNION {{[j \in DOMAIN g \cup {k} |-> IF j = k THEN v ELSE g[j]] :
                    g \in PropsOf(rest, n - Size(v))} : v \in ValuesOf(n)}
ValuesOf(n) ==
  IF n = 0 THEN {}
  ELSE Leaves
       \cup {Obj(f) : f \in PropsOf(KeySegs, n - 1)}
       \cup UNION {{Arr(len, f) : f \in {g \in PropsOf(IndexSegs, n - 1) :
                                          \A k \in DOMAIN g : ToNumber(k).n < len}} :
                   len \in 0..Cardinality(IndexSegs)}

Roots == {Obj(f) : f \in PropsOf(KeySegs, MaxNodes)}

\* ------------------------------------------------------- the path accessor

VARIABLES
  root,     \* the structure the caller owns and passes to the operation
  call,     \* the call made on it: its arguments, the root before it, its outcome
  form,     \* the current values of the form the hook wraps
  options,  \* the options the hook was given
  storage,  \* the entry of the storage under the key of the hook
  mounted,  \* whether the component that uses the hook is mounted
  last      \* the last step of the hook and what it called

pathVars == <<root, call>>
hookVars == <<form, options, storage, mounted, last>>
vars == <<root, call, form, options, storage, mounted, last>>

NoCall == [op |-> "none", path |-> <<>>, value |-> Undef, before |-> Undef,
           st |-> "ok", ret |-> Undef]

\* A behaviour is one call of one operation on one root of the caller.
PathInit ==
  /\ root \in Roots
  /\ call = NoCall

\* getIn(root, p)
GetIn(p) ==
  /\ call.op = "none"
  /\ call' = [op |-> "getIn", path |-> p, value |-> Undef, before |-> root,
              st |-> "ok", ret |-> getIn(root, p)]
  /\ UNCHANGED root

\* setIn(root, p, v): the root is changed in place, also when the call throws
SetIn(p, v) ==
  LET r == setIn(root, p, v) IN
  /\ call.op = "none"
  /\ root' = r.node
  /\ call' = [op |-> "setIn", path |-> p, value |-> v, before |-> root,
              st |-> r.st, ret |-> IF r.st = "ok" THEN r.node ELSE Undef]

\* deleteIn(root, p)
DeleteIn(p) ==
  LET r == deleteIn(root, p) IN
  /\ call.op = "none"
  /\ root' = r.node
  /\ call' = [op |-> "deleteIn", path |-> p, value |-> Undef, before |-> root,
              st |-> "ok", ret |-> Bool(r.empty)]

\* ------------------------------------------------------------------ the hook

A == <<"a">>
B == <<"b">>
I0 == <<"0">>
I1 == <<"1">>
X == Str(<<"x">>)
One(k, v) == [j \in {k} |-> v]
Two(k1, v1, k2, v2) == [j \in {k1, k2} |-> IF j = k1 THEN v1 ELSE v2]

\* most paths that include and exclude list together
MaxListed == 2

\* INITIAL_VERSION
Version == <<"1">>
\* the versions an application has had
Versions == {Version, <<"2">>}

\* The form has the shape {a: {a, b}, b: [_, _]}: a nested mapping and a
\* sequence, every field registered and holding a string or a number.
FieldPaths == {Join(<<A, A>>), Join(<<A, B>>), Join(<<B, I0>>), Join(<<B, I1>>)}
FieldValues == SetValues
DefaultValues ==
  Obj(Two(A, Obj(Two(A, Num(0), B, Num(0))), B, Arr(2, Two(I0, Num(0), I1, Num(0)))))

\* Path<T> of that shape: what include and exclude may list
FormPaths == {A, B} \cup FieldPaths
PathLists ==
  {<<>>} \cup {<<p>> : p \in FormPaths}
         \cup {l \in FormPaths \X FormPaths : l[1] # l[2]}

\* what a call of the onVersionMismatch of the caller does: it returns, or it
\* throws.  The caller who gives none is the caller whose callback returns.
MismatchCallbacks == {"returns", "throws"}

\* useFormPersistOptions, the storage and the parser left at their defaults
HookOptions ==
  {o \in [include : PathLists, exclude : PathLists,
          version : Versions, clearOnSubmit : BOOLEAN,
          onVersionMismatch : MismatchCallbacks] :
     Len(o.include) + Len(o.exclude) <= MaxListed}
\* the options that filter: clearOnSubmit and version at their defaults
FilterOptions ==
  {o \in HookOptions :
     o.version = Version /\ o.clearOnSubmit /\ o.onVersionMismatch = "returns"}
\* the options that do not filter
PlainOptions == {o \in HookOptions : o.include = <<>> /\ o.exclude = <<>>}

\* storage.getItem(key) === null
NoItem == [t |-> "none"]
\* an entry whose text is the empty string
Empty == [t |-> "empty"]
\* an entry whose text JSON.parse rejects
Corrupt == [t |-> "corrupt"]
\* an entry whose text is the JSON of v, a value with no "version" property
Plain(v) == [t |-> "value", v |-> v]
\* an entry whose text is the JSON of {version, data}; data is Undef when
\* the object has no "data" property
Versioned(version, data) == [t |-> "json", version |-> version, data |-> data]

\* a field name the form does not have
Unknown == <<"c">>

\* What the storage may hold under the key before the hook first mounts:
\* nothing, or an entry left by an earlier session or by other code.
StoredData ==
  {Undef,
   Obj(Two(A, Obj(One(A, X)), Unknown, X)),
   Obj(One(B, Arr(1, One(I0, X))))}
StoredEntries ==
  {NoItem, Empty, Corrupt, Plain(Null), Plain(Obj(NoProps))}
    \cup {Versioned(v, d) : v \in Versions, d \in StoredData}

\* JSON.parse(JSON.stringify(x)) of the default parser: a property holding
\* undefined is dropped, a hole or an undefined element of a sequence becomes
\* null, a named property of a sequence is dropped
RECURSIVE JsonOf(_)
JsonOf(x) ==
  CASE x.t = "obj" ->
         Obj([k \in {j \in DOMAIN x.p : x.p[j].t # "undefined"} |-> JsonOf(x.p[k])])
    [] x.t = "arr" ->
         Arr(x.len, [k \in {StringOf(IntNum(i)) : i \in 0..(x.len - 1)} |->
                       IF k \in DOMAIN x.p /\ x.p[k].t # "undefined"
                       THEN JsonOf(x.p[k]) ELSE Null])
    [] OTHER -> x

\* the segments of q are the first segments of p, and p has more
IsProperPrefix(q, p) ==
  LET qs == splitPath(q)
      ps == splitPath(p)
  IN Len(qs) < Len(ps) /\ SubSeq(ps, 1, Len(qs)) = qs

\* x with the node at segments i.. replaced by v
RECURSIVE PutAt(_, _, _, _)
PutAt(x, segments, i, v) ==
  IF i > Len(segments) THEN v
  ELSE PutProp(x, segments[i], PutAt(GetProp(x, segments[i]), segments, i + 1, v))

\* include?.length
IncludeGiven(include) == Len(include) > 0

\* What the object data holds after setIn(picked, p, value), where picked
\* holds objects of data at the paths of shared: a walk through one of them
\* writes into data.
WrittenThrough(data, p, value, through) ==
  IF through = {} THEN data
  ELSE LET q == CHOOSE o \in through : \A u \in through : Len(o) <= Len(u)
           qs == splitPath(q)
       IN PutAt(data, qs, 1,
                SetWalk(getIn(data, q), splitPath(p), Len(qs) + 1, value).node)

\* The loop over include of filterData, from its i-th path on.  setIn stores
\* in picked the very object getIn found in data, not a copy: shared is the
\* set of paths at which picked holds an object of data.
RECURSIVE PickFrom(_, _, _, _, _)

\* after setIn(picked, p, value) has ended as r and left data as written
PickSet(include, i, shared, value, r, written) ==
  IF r.st # "ok" THEN [st |-> r.st, data |-> r.node, values |-> written]
  ELSE PickFrom(written, include, i + 1, r.node,
                IF IsObjectLike(value) /\ getIn(r.node, include[i]) = value
                THEN shared \cup {include[i]} ELSE shared)

\* after getIn(data, p) has returned value
PickValue(data, include, i, picked, shared, value) ==
  IF value = Undef THEN PickFrom(data, include, i + 1, picked, shared)
  ELSE PickSet(include, i, shared, value, setIn(picked, include[i], value),
               WrittenThrough(data, include[i], value,
                              {q \in shared : IsProperPrefix(q, include[i])}))

PickFrom(data, include, i, picked, shared) ==
  IF i > Len(include) THEN [st |-> "ok", data |-> picked, values |-> data]
  ELSE PickValue(data, include, i, picked, shared, getIn(data, include[i]))

\* the loop over exclude of filterData, from its i-th path on
RECURSIVE PruneFrom(_, _, _)
PruneFrom(pruned, exclude, i) ==
  IF i > Len(exclude) THEN [st |-> "ok", data |-> pruned]
  ELSE PruneFrom(deleteIn(pruned, exclude[i]).node, exclude, i + 1)

\* a bug that prunes the values of the form themselves
structuredCloneShared(data) == [node |-> data, own |-> FALSE]

\* structuredClone(data): a deep copy, the same value in objects of its own
structuredClone(data) == [node |-> data, own |-> TRUE]

\* filterData(data, include, exclude): what it returns (data), how it ends
\* (st), and what the object it was given holds afterwards (values)
Pruned(data, copy, r) ==
  [st |-> r.st, data |-> r.data, values |-> IF copy.own THEN data ELSE r.data]
filterData(data, include, exclude) ==
  IF IncludeGiven(include) THEN PickFrom(data, include, 1, Obj(NoProps), {})
  ELSE IF Len(exclude) > 0 THEN
    Pruned(data, structuredClone(data), PruneFrom(structuredClone(data).node, exclude, 1))
  ELSE [st |-> "ok", data |-> data, values |-> data]

\* save(data): storage.setItem(key, serialize({version, data}))
save(data) == Versioned(options.version, JsonOf(data))

\* a bug that takes every stored version for the current one
VersionDiffersNever(stored, current) == FALSE

\* parsed.version !== version
VersionDiffers(stored, current) == stored # current

\* a bug that sets every stored field
IsKnownFieldAny(currentFormData, fieldName) == TRUE

\* validFieldNames.has(fieldName)
IsKnownField(currentFormData, fieldName) == fieldName \in DOMAIN currentFormData.p

\* Object.entries(values) as a function from the keys; values is not null or
\* undefined
EntriesOf(values) ==
  CASE values.t \in {"obj", "arr"} -> values.p
    [] values.t = "str" ->
         [k \in {StringOf(IntNum(i)) : i \in 0..(Len(values.s) - 1)} |->
            Str(<<values.s[ToNumber(k).n + 1]>>)]
    [] OTHER -> NoProps

\* a bug that sets no field
SetValueAllNone(currentFormData, entries, names) == currentFormData

\* form.setValue(fieldName, fieldValue) for each entry: the form holds the
\* value at the name
SetValueAll(currentFormData, entries, names) ==
  Obj([k \in DOMAIN currentFormData.p \cup names |->
         IF k \in names THEN entries[k] ELSE currentFormData.p[k]])

\* !raw: no entry, or an entry of the empty string
HasNoText(raw) == raw.t \in {"none", "empty"}

\* onVersionMismatch?.(parsed.version, version) has been called and r is
\* what the effect leaves if the call returns: an error it throws is caught
\* by the catch of the effect, which removes the entry
MismatchCalled(r) ==
  IF options.onVersionMismatch = "throws" THEN [r EXCEPT !.storage = NoItem]
  ELSE r

\* The restore effect on the entry raw and the values of the form: the entry
\* and the values it leaves, the calls of onVersionMismatch and the names
\* form.setValue was called with.
restore(raw, currentFormData) ==
  LET quiet == [storage |-> raw, form |-> currentFormData,
                mismatch |-> <<>>, setValue |-> {}]
      removed == [quiet EXCEPT !.storage = NoItem]
  IN CASE HasNoText(raw) -> quiet
       \* deserialize throws
       [] raw.t = "corrupt" -> removed
       \* not an object, an object without "version", or null, on which the
       \* `in` test throws
       [] raw.t = "value" -> removed
       [] raw.t = "json" ->
            IF VersionDiffers(raw.version, options.version)
            THEN MismatchCalled([quiet EXCEPT !.mismatch =
                                   <<<<raw.version, options.version>>>>])
            \* Object.entries(undefined) throws
            ELSE IF IsNullish(raw.data) THEN removed
            ELSE LET entries == EntriesOf(raw.data)
                     names == {k \in DOMAIN entries : IsKnownField(currentFormData, k)}
                 IN [quiet EXCEPT !.form = SetValueAll(currentFormData, entries, names),
                                  !.setValue = names]

\* the step of the hook before its first
NoStep == [op |-> "none", saved |-> FALSE, mismatch |-> <<>>, setValue |-> {},
           notified |-> Undef, before |-> NoItem]

\* A component with a form of the default values is about to mount the hook:
\* with any lists of paths on a storage that holds nothing, or with no lists
\* on a storage that may hold an entry.
HookInit ==
  /\ form = DefaultValues
  /\ \/ options \in FilterOptions /\ storage = NoItem
     \/ options \in PlainOptions /\ storage \in StoredEntries
  /\ mounted = FALSE
  /\ last = NoStep

\* the restore effect has ended as r
Restored(r) ==
  /\ ~mounted
  /\ mounted' = TRUE
  /\ form' = r.form
  /\ storage' = r.storage
  /\ last' = [NoStep EXCEPT !.op = "mount", !.mismatch = r.mismatch,
                            !.setValue = r.setValue, !.before = storage]
  /\ UNCHANGED options

\* The component mounts: the restore effect runs, then the form is subscribed.
Mount == Restored(restore(storage, form))

\* The component unmounts, and its form goes with it: the subscription ends,
\* the next mount is of a form of the default values.
Unmount ==
  /\ mounted
  /\ mounted' = FALSE
  /\ form' = DefaultValues
  /\ last' = [NoStep EXCEPT !.op = "unmount", !.before = storage]
  /\ UNCHANGED <<options, storage>>

\* the values of the form with the field at p set to v
WithField(values, p, v) ==
  LET segs == splitPath(p)
  IN PutProp(values, segs[1], PutProp(GetProp(values, segs[1]), segs[2], v))

\* The callback the hook subscribed with, called with values while entry is
\* in the storage.  An error thrown by filterData leaves the callback before
\* save is called.
Saved(filtered, entry) ==
  [form |-> filtered.values,
   storage |-> IF filtered.st = "ok" THEN save(filtered.data) ELSE entry,
   saved |-> filtered.st = "ok"]
Notified(values, entry) ==
  Saved(filterData(values, options.include, options.exclude), entry)

\* A field of the form changes and the form notifies the subscription of the
\* hook, which filters the values and saves them.
Changed(op, before, values, n) ==
  /\ mounted
  /\ form' = n.form
  /\ storage' = n.storage
  /\ last' = [NoStep EXCEPT !.op = op, !.saved = n.saved,
                            !.notified = values, !.before = before]
  /\ UNCHANGED <<options, mounted>>
ValueChange(p, v) ==
  Changed("change", NoItem, WithField(form, p, v),
          Notified(WithField(form, p, v), storage))

\* the onValid callbacks of the caller: none, or one that sets a field of
\* the form
NoCallback == [t |-> "none"]
OnValids == {NoCallback, [t |-> "setValue", path |-> Join(<<A, A>>), value |-> X]}

\* A valid submit through the handleSubmit of the hook: resetPersisted when
\* clearOnSubmit, then onValid.
Submit(onValid) ==
  IF onValid.t = "none"
  THEN /\ mounted
       /\ storage' = IF options.clearOnSubmit THEN NoItem ELSE storage
       /\ last' = [NoStep EXCEPT !.op = "submit", !.before = storage]
       /\ UNCHANGED <<form, options, mounted>>
  ELSE Changed("submit", storage, WithField(form, onValid.path, onValid.value),
               Notified(WithField(form, onValid.path, onValid.value),
                        IF options.clearOnSubmit THEN NoItem ELSE storage))

\* ------------------------------------------------------ the specifications

\* the path accessor on its own: no hook is mounted
Init ==
  /\ PathInit
  /\ form = Obj(NoProps)
  /\ options = [include |-> <<>>, exclude |-> <<>>,
                version |-> Version, clearOnSubmit |-> TRUE,
                onVersionMismatch |-> "returns"]
  /\ storage = NoItem
  /\ mounted = FALSE
  /\ last = NoStep

Next ==
  \/ /\ \E p \in Paths : GetIn(p)
     /\ UNCHANGED hookVars
  \/ /\ \E p \in Paths, v \in SetValues : SetIn(p, v)
     /\ UNCHANGED hookVars
  \/ /\ \E p \in Paths : DeleteIn(p)
     /\ UNCHANGED hookVars

Spec == Init /\ [][Next]_vars

\* the hook, used by a component with a form
InitHook ==
  /\ HookInit
  /\ root = Obj(NoProps)
  /\ call = NoCall

NextHook ==
  \/ /\ Mount
     /\ UNCHANGED pathVars
  \/ /\ Unmount
     /\ UNCHANGED pathVars
  \/ /\ \E p \in FieldPaths, v \in FieldValues : ValueChange(p, v)
     /\ UNCHANGED pathVars
  \/ /\ \E onValid \in OnValids : Submit(onValid)
     /\ UNCHANGED pathVars

SpecHook == InitHook /\ [][NextHook]_vars

\* The path accessor called with segments of any characters: the second
\* segment of the path is any string of at most MaxSegLen characters, the
\* empty one included.
MaxSegLen == 2
SegChars == {"0", "1", "-", "a"}
AnySegs == UNION {[1..n -> SegChars] : n \in 0..MaxSegLen}
SegPaths == {Join(<<A, s>>) : s \in AnySegs} \cup {Join(<<A, s, A>>) : s \in AnySegs}
SegRoots == {Obj(NoProps), Obj(One(A, Obj(NoProps))), Obj(One(A, Arr(0, NoProps)))}

InitSeg ==
  /\ root \in SegRoots
  /\ call = NoCall
  /\ form = Obj(NoProps)
  /\ options = [include |-> <<>>, exclude |-> <<>>,
                version |-> Version, clearOnSubmit |-> TRUE,
                onVersionMismatch |-> "returns"]
  /\ storage = NoItem
  /\ mounted = FALSE
  /\ last = NoStep

NextSeg ==
  \/ /\ \E p \in SegPaths : GetIn(p)
     /\ UNCHANGED hookVars
  \/ /\ \E p \in SegPaths, v \in SetValues : SetIn(p, v)
     /\ UNCHANGED hookVars
  \/ /\ \E p \in SegPaths : DeleteIn(p)
     /\ UNCHANGED hookVars

SpecSeg == InitSeg /\ [][NextSeg]_vars

\* ------------------------------------------------------------- the claims

\* the segments of the path of the call, and the node that the first k of
\* them address in the root before and after the call
CallSegs == splitPath(call.path)
NSegs == Len(CallSegs)
Prefix(k) == SubSeq(CallSegs, 1, k)
NodeBefore(k) == GetWalk(call.before, Prefix(k), 1)
NodeAfter(k) == GetWalk(root, Prefix(k), 1)
IsLeaf(x) == x.t \in {"str", "num", "bool", "null"}
IsMapping(x) == x.t = "obj"
IsSequence(x) == x.t = "arr"
IsEmptyMapping(x) == x.t = "obj" /\ DOMAIN x.p = {}
\* the entries of container x other than k are those of container y
KeepsOthers(x, k, y) ==
  \A j \in DOMAIN x.p \ {k} : j \in DOMAIN y.p /\ y.p[j] = x.p[j]

\* C1 (as claimed): after a setIn(R, P, v) that returns, getIn(R, P) is v,
\* also when the last segment of P is an index segment and the container it
\* meets is not a sequence.
C1_RoundTrip ==
  (call.op = "setIn" /\ call.st = "ok") => getIn(root, call.path) = call.value

\* C2: after deleteIn(R, P) of an existing leaf, no mapping that was an
\* ancestor of the leaf is left empty below the root (it is removed from its
\* parent, and so on upwards), an ancestor mapping with another property is
\* kept with that property, and the root stays a mapping: a.b.a deleted from
\* {a: {b: {a: "x"}}} leaves {}.
C2_PruningCascade ==
  (call.op = "deleteIn" /\ IsLeaf(getIn(call.before, call.path))) =>
    /\ \A k \in 1..(NSegs - 1) :
         IsMapping(NodeBefore(k)) =>
           /\ ~IsEmptyMapping(NodeAfter(k))
           /\ (DOMAIN NodeBefore(k).p \ {CallSegs[k + 1]} # {}) =>
                /\ IsMapping(NodeAfter(k))
                /\ KeepsOthers(NodeBefore(k), CallSegs[k + 1], NodeAfter(k))
    /\ IsMapping(root)
    /\ (call.before = Obj(One(A, Obj(One(B, Obj(One(A, X))))))
          /\ call.path = Join(<<A, B, A>>)) => root = Obj(NoProps)

\* a leaf three segments deep was deleted and both its ancestors were pruned
C2_Witness ==
  /\ call.op = "deleteIn"
  /\ NSegs = 3
  /\ IsLeaf(getIn(call.before, call.path))
  /\ IsMapping(NodeBefore(1))
  /\ IsMapping(NodeBefore(2))
  /\ root = Obj(NoProps)

\* a non-terminal index segment of the path meets an existing mapping
Conflict ==
  \E k \in 1..(NSegs - 1) : isIndex(CallSegs[k]) /\ IsMapping(NodeBefore(k - 1))

\* C3: a setIn whose path has a non-terminal index segment where the root
\* holds a mapping throws the error of setIn and leaves the root as it was:
\* the mapping is not made a sequence and keeps its entries, and nothing of
\* the later segments is applied.
C3_StructuralConflict ==
  (call.op = "setIn" /\ Conflict) => (call.st = "Error" /\ root = call.before)

\* setIn threw at the second segment, an index, on a mapping that has entries
C3_Witness ==
  /\ call.op = "setIn"
  /\ NSegs = 3
  /\ isIndex(CallSegs[2])
  /\ IsMapping(NodeBefore(1))
  /\ DOMAIN NodeBefore(1).p # {}
  /\ call.st = "Error"

\* C4 (as claimed): deleteIn(R, P) of a path that addresses nothing in R
\* leaves R exactly as it was, its already empty mappings included.
C4_AbsentDeleteNoOp ==
  (call.op = "deleteIn" /\ getIn(call.before, call.path) = Undef) =>
    (call.st = "ok" /\ root = call.before)

\* C5: a sequence at a strict prefix of P before deleteIn(R, P) is a
\* sequence at that prefix afterwards, also when its last value was deleted:
\* b.1 deleted from {b: [<hole>, "x"]} leaves b a sequence of length 2 with
\* no values.
C5_SequencesKept ==
  call.op = "deleteIn" =>
    /\ \A k \in 1..(NSegs - 1) : IsSequence(NodeBefore(k)) => IsSequence(NodeAfter(k))
    /\ (call.before = Obj(One(B, Arr(2, One(I1, X)))) /\ call.path = Join(<<B, I1>>))
         => root = Obj(One(B, Arr(2, NoProps)))

\* the last value of a sequence was deleted and the sequence is still there
C5_Witness ==
  /\ call.op = "deleteIn"
  /\ NSegs = 2
  /\ IsSequence(NodeBefore(1))
  /\ DOMAIN NodeBefore(1).p # {}
  /\ IsSequence(NodeAfter(1))
  /\ DOMAIN NodeAfter(1).p = {}

\* C6: deleteIn(R, P) called again right after deleteIn(R, P) leaves R as the
\* first call left it.
C6_DeleteIdempotent ==
  call.op = "deleteIn" => deleteIn(root, call.path).node = root

\* the first call deleted a leaf and pruned a mapping
C6_Witness ==
  /\ call.op = "deleteIn"
  /\ NSegs = 2
  /\ IsMapping(NodeBefore(1))
  /\ NodeAfter(1) = Undef

\* C7 (as claimed): getIn(R, P) returns undefined when a proper prefix of P
\* resolves to an absent node or to a leaf.
C7_GetAbsentUndefined ==
  (call.op = "getIn" /\ \E k \in 1..(NSegs - 1) : ~IsObjectLike(NodeBefore(k))) =>
    (call.st = "ok" /\ call.ret = Undef)

\* the walk of setIn gets to segment k without a throw: every container on
\* the way is of the kind the segment into it needs
Reaches(k) ==
  \A j \in 1..k :
    IF isIndex(CallSegs[j]) THEN IsSequence(NodeBefore(j - 1))
    ELSE NodeBefore(j - 1).t \in {"obj", "arr"}

\* C8: where the walk of setIn finds no node for a non-terminal segment, the
\* call completes and the node is a sequence if the next segment is an index
\* segment and a mapping otherwise; a container found there is kept, with its
\* other entries: setIn({}, "a.0.b", "x") gives {a: [{b: "x"}]}.
C8_LookAhead ==
  call.op = "setIn" =>
    /\ \A k \in 1..(NSegs - 1) :
         Reaches(k) =>
           /\ NodeBefore(k) = Undef =>
                /\ call.st = "ok"
                /\ NodeAfter(k).t = IF isIndex(CallSegs[k + 1]) THEN "arr" ELSE "obj"
           /\ NodeBefore(k).t \in {"obj", "arr"} =>
                /\ NodeAfter(k).t = NodeBefore(k).t
                /\ KeepsOthers(NodeBefore(k), CallSegs[k + 1], NodeAfter(k))
    /\ (call.before = Obj(NoProps) /\ call.path = Join(<<A, I0, B>>) /\ call.value = X)
         => root = Obj(One(A, Arr(1, One(I0, Obj(One(B, X))))))

\* setIn created a sequence for a key segment and a mapping for an index segment
C8_Witness ==
  /\ call.op = "setIn"
  /\ NSegs = 3
  /\ ~isIndex(CallSegs[1])
  /\ isIndex(CallSegs[2])
  /\ NodeBefore(1) = Undef
  /\ IsSequence(NodeAfter(1))
  /\ IsMapping(NodeAfter(2))

\* C9 (as claimed): getIn and deleteIn never raise, and setIn raises only
\* when a non-terminal index segment meets a container that is not a sequence.
C9_OnlyConflictRaises ==
  /\ call.op \in {"getIn", "deleteIn"} => call.st = "ok"
  /\ (call.op = "setIn" /\ call.st # "ok") =>
       \E k \in 1..(NSegs - 1) : isIndex(CallSegs[k]) /\ ~IsSequence(NodeBefore(k - 1))

\* C10 (as claimed): what the hook has stored holds no value at a path of
\* exclude, also when include is given.
C10_ExcludedNeverStored ==
  last.saved =>
    \A i \in 1..Len(options.exclude) :
      getIn(storage.data, options.exclude[i]) \in {Undef, Null}

\* the paths of x that end at a leaf: a string, a number, a boolean or null
RECURSIVE LeafPathsOf(_, _)
LeafPathsOf(x, at) ==
  IF x.t \in {"obj", "arr"}
  THEN UNION {LeafPathsOf(x.p[k], IF at = <<>> THEN k ELSE at \o <<Dot>> \o k) :
                k \in DOMAIN x.p}
  ELSE {at}
\* q is a path of the list or below one
Listed(q, list) == \E i \in 1..Len(list) : list[i] = q \/ IsProperPrefix(list[i], q)

\* C11 (as claimed): with a non-empty include, what the hook has stored holds
\* a leaf only at or below a path of include.
C11_IncludeWhitelist ==
  (last.saved /\ Len(options.include) > 0) =>
    \A q \in LeafPathsOf(storage.data, <<>>) : Listed(q, options.include)

\* the entry the last mount found was written with the version of the options
SameVersion == last.before.t = "json" /\ last.before.version = options.version
\* the entry the last mount found was written with another version
OtherVersion == last.before.t = "json" /\ last.before.version # options.version

\* C12: a mount that finds an entry of another version calls
\* onVersionMismatch once, with the stored and the current version, calls
\* form.setValue for no field and leaves the form as it was; form.setValue is
\* called and the form changed only by a mount that finds an entry of the
\* current version, and then onVersionMismatch is not called.
C12_VersionGating ==
  last.op = "mount" =>
    /\ OtherVersion =>
         /\ last.mismatch = <<<<last.before.version, options.version>>>>
         /\ last.setValue = {}
         /\ form = DefaultValues
    /\ (last.setValue # {} \/ form # DefaultValues) => SameVersion
    /\ SameVersion => last.mismatch = <<>>

\* a mount found an entry of another version that holds a value for a field
\* of the form
C12_Witness ==
  /\ last.op = "mount"
  /\ OtherVersion
  /\ last.before.data.t = "obj"
  /\ A \in DOMAIN last.before.data.p
  /\ Len(last.mismatch) = 1
  /\ storage = last.before

\* C13 (as claimed): when a valid submit has completed, the onValid of the
\* caller included, the storage holds no entry if clearOnSubmit is true and
\* the entry it held before the submit if clearOnSubmit is false.
C13_ClearOnSubmit ==
  last.op = "submit" =>
    storage = IF options.clearOnSubmit THEN NoItem ELSE last.before

\* C14: a mount that finds an entry of the current version calls
\* form.setValue for exactly the top-level keys of the stored data that are
\* keys of the values of the form; the form gets no other key.
C14_RestoreKnownFields ==
  (last.op = "mount" /\ SameVersion /\ IsObjectLike(last.before.data)) =>
    /\ last.setValue = DOMAIN last.before.data.p \cap DOMAIN DefaultValues.p
    /\ DOMAIN form.p = DOMAIN DefaultValues.p
    /\ \A k \in DOMAIN form.p \ last.setValue : form.p[k] = DefaultValues.p[k]

\* a mount found a known and an unknown field and set the known one only
C14_Witness ==
  /\ last.op = "mount"
  /\ SameVersion
  /\ last.before.data.t = "obj"
  /\ Unknown \in DOMAIN last.before.data.p
  /\ last.setValue = {A}
  /\ form.p[A] = last.before.data.p[A]

\* the field at q is one the lists of the options let through
Kept(q) ==
  IF Len(options.include) > 0 THEN Listed(q, options.include)
  ELSE ~Listed(q, options.exclude)

\* C15: after a change of a field the storage holds an entry of the current
\* version whose data has, at every field the lists let through, the value
\* the form has there; a mount that finds an entry of the current version
\* leaves every top-level field of the form that the stored data has with
\* the stored value, nested values included.
C15_PersistThenRestore ==
  /\ last.op = "change" =>
       /\ storage.t = "json"
       /\ storage.version = options.version
       /\ \A q \in FieldPaths : Kept(q) => getIn(storage.data, q) = getIn(form, q)
  /\ (last.op = "mount" /\ SameVersion /\ IsObjectLike(last.before.data)) =>
       \A k \in DOMAIN last.before.data.p \cap DOMAIN DefaultValues.p :
         form.p[k] = last.before.data.p[k]

\* a remount restored both fields, the nested mapping and the sequence, from
\* an entry the hook had saved
C15_Witness ==
  /\ last.op = "mount"
  /\ SameVersion
  /\ last.before.data = form
  /\ getIn(form, Join(<<A, A>>)) = X
  /\ getIn(form, Join(<<B, I1>>)) = X

\* C16 (as claimed): deleteIn(R, P) on a mapping R returns true exactly when
\* R has no own property after the call; a sequence on the path and a leaf
\* on the path, null included, report false to the level above.
C16_DeleteReturnAnyLeaf ==
  call.op = "deleteIn" =>
    /\ call.ret = Bool(DOMAIN root.p = {})
    /\ \A k \in 1..(NSegs - 1) :
         (IsSequence(NodeBefore(k)) \/ IsLeaf(NodeBefore(k))) =>
           ~deleteNode(NodeBefore(k), CallSegs, k + 1).empty

\* C16 (amended): deleteIn(R, P) on a mapping R returns true exactly when R
\* has no own property after the call; a sequence on the path and a leaf
\* that is not null on the path report false to the level above: a.a deleted
\* from {a: {a: "x", b: "x"}} returns false and leaves {a: {b: "x"}}.
C16_DeleteReturn ==
  call.op = "deleteIn" =>
    /\ call.ret = Bool(DOMAIN root.p = {})
    /\ \A k \in 1..(NSegs - 1) :
         (IsSequence(NodeBefore(k)) \/ NodeBefore(k).t \in {"str", "num", "bool"}) =>
           ~deleteNode(NodeBefore(k), CallSegs, k + 1).empty
    /\ (call.before = Obj(One(A, Obj(Two(A, X, B, X)))) /\ call.path = Join(<<A, A>>)) =>
         (call.ret = Bool(FALSE) /\ root = Obj(One(A, Obj(One(B, X)))))

\* deleteIn returned true for a root that it emptied by pruning
C16_Witness ==
  /\ call.op = "deleteIn"
  /\ NSegs = 2
  /\ IsMapping(NodeBefore(1))
  /\ IsLeaf(NodeBefore(2))
  /\ root = Obj(NoProps)
  /\ call.ret = Bool(TRUE)

\* C17: after deleteIn(R, P) whose last segment is an index into a sequence
\* S, S is a sequence of the length it had, getIn of P is undefined, and
\* every other index of S holds what it held before the call.
C17_DeleteLeavesHole ==
  (call.op = "deleteIn" /\ CallSegs[NSegs] \in IndexSegs
     /\ IsSequence(NodeBefore(NSegs - 1))) =>
    /\ IsSequence(NodeAfter(NSegs - 1))
    /\ NodeAfter(NSegs - 1).len = NodeBefore(NSegs - 1).len
    /\ getIn(root, call.path) = Undef
    /\ \A j \in IndexSegs \ {CallSegs[NSegs]} :
         GetProp(NodeAfter(NSegs - 1), j) = GetProp(NodeBefore(NSegs - 1), j)

\* slot 0 of a sequence with values at 0 and 1 was deleted: 0 is a hole and
\* the value at 1 is still at 1
C17_Witness ==
  /\ call.op = "deleteIn"
  /\ NSegs = 2
  /\ CallSegs[2] = I0
  /\ IsSequence(NodeBefore(1))
  /\ DOMAIN NodeBefore(1).p = {I0, I1}
  /\ IsSequence(NodeAfter(1))
  /\ DOMAIN NodeAfter(1).p = {I1}
  /\ NodeAfter(1).len = 2
  /\ NodeAfter(1).p[I1] = NodeBefore(1).p[I1]

\* the canonical decimal string of a non-negative integer
CanonicalIndex(s) == AllDigits(s) /\ (Len(s) = 1 \/ Head(s) # "0")

\* C18 (as claimed): a segment is treated as an index segment exactly when it
\* is the canonical decimal string of a non-negative integer: setIn of a.s.a
\* into {} creates a sequence at a exactly for such an s, and setIn of a.s.a
\* into {a: {}} throws exactly for such an s.
C18_SegmentClass ==
  (call.op = "setIn" /\ NSegs = 3) =>
    /\ call.before = Obj(NoProps) =>
         (call.st = "ok" /\ (IsSequence(NodeAfter(1)) <=> CanonicalIndex(CallSegs[2])))
    /\ call.before = Obj(One(A, Obj(NoProps))) =>
         (call.st = "Error" <=> CanonicalIndex(CallSegs[2]))

\* the segments a are the first segments of b, or all of them
IsPrefixSegs(a, b) == Len(a) <= Len(b) /\ SubSeq(b, 1, Len(a)) = a
\* neither path, given by its segments, is the other or leads to the other
Unrelated(a, b) == ~IsPrefixSegs(a, b) /\ ~IsPrefixSegs(b, a)

\* C19: a setIn(R, P, v) that completes returns R and leaves getIn(R, Q) as
\* it was for every path Q, of the segments ss, that is not P, not a prefix
\* of P and not below P;
\* a container found on P keeps its kind and its other entries.
C19_SetFrame ==
  (call.op = "setIn" /\ call.st = "ok") =>
    /\ call.ret = root
    /\ \A ss \in SegSeqs :
         Unrelated(ss, CallSegs) => GetWalk(root, ss, 1) = GetWalk(call.before, ss, 1)
    /\ \A k \in 1..(NSegs - 1) :
         (NodeBefore(k).t \in {"obj", "arr"}) =>
           /\ NodeAfter(k).t = NodeBefore(k).t
           /\ KeepsOthers(NodeBefore(k), CallSegs[k + 1], NodeAfter(k))

\* setIn wrote below an existing mapping that had another entry, and that
\* entry is still there
C19_Witness ==
  /\ call.op = "setIn"
  /\ call.st = "ok"
  /\ NSegs = 2
  /\ IsMapping(NodeBefore(1))
  /\ DOMAIN NodeBefore(1).p \ {CallSegs[2]} # {}
  /\ getIn(root, call.path) = call.value
  /\ getIn(call.before, call.path) # call.value
  /\ KeepsOthers(NodeBefore(1), CallSegs[2], NodeAfter(1))

IsCorruptEntry(entry) == entry.t \in {"empty", "corrupt", "value"}

\* C21 (as claimed): a mount that finds an entry that cannot be deserialized,
\* or that is not an object with a "version" property, removes the entry and
\* calls form.setValue for no field, the form staying as it was; a mount that
\* finds an entry of another version leaves that entry in the storage; and a
\* save leaves in its place an entry of the version of the options.
C21_CorruptDiscarded ==
  /\ last.op = "mount" =>
       /\ IsCorruptEntry(last.before) =>
            /\ storage = NoItem
            /\ last.setValue = {}
            /\ form = DefaultValues
       /\ OtherVersion => storage = last.before
  /\ last.saved => (storage.t = "json" /\ storage.version = options.version)

====
